---- MODULE Spec2Model ----
(***************************************************************************)
(* OfflineLaunchPad (fireworks/core/offline_launchpad.py): a workflow      *)
(* store kept in one in-memory sqlite database.  The tables meta,          *)
(* fireworks, workflows and mapping are the state; every public method is  *)
(* an action, split at the points where the code commits a transaction.    *)
(***************************************************************************)
EXTENDS Integers, Sequences, FiniteSets, TLC

\* ------------------------------------------------------------------ bounds
\* most rows the fireworks table may hold (guards add_wf and _refresh_wf)
MaxRows == 4
\* most add_wf calls between two resets
MaxWfs == 2
\* most _get_new_and_increment returns since the last reset, in direct calls
MaxAllocs == 3
\* largest quantity a direct get_new_fw_id / _get_new_workflow_id call asks for
MaxQty == 2
\* rows _refresh_wf may write beyond the MaxRows rows of add_wf
MaxExtraRows == 1
\* the quantity of a block get_new_fw_id(quantity) call made beside add_wf
MaxBlock == 5

\* ----------------------------------------------------------------- helpers
Range(s) == {s[i] : i \in 1..Len(s)}

RECURSIVE SumQty(_)
SumQty(s) == IF s = <<>> THEN 0 ELSE s[1].qty + SumQty(Tail(s))

Min(S) == CHOOSE x \in S : \A y \in S : x <= y

\* list.sort(key=lambda x: x.fw_id) applied to fireworks with the ids S
RECURSIVE SortedIds(_)
SortedIds(S) == IF S = {} THEN <<>> ELSE <<Min(S)>> \o SortedIds(S \ {Min(S)})

\* ------------------------------------------------------------------- state
VARIABLES
    created,    \* the four tables exist (reset has run on this connection)
    meta,       \* table meta: counter name -> next value
    fireworks,  \* table fireworks: rows [fw_id, state] in rowid order
    workflows,  \* table workflows: rows [wf_id, nodes, links, fw_states]
    mapping,    \* table mapping: rows [firework_id, workflow_id]
    pc,         \* per thread: where its current call stands
    loc,        \* per thread: the locals of its current call
    last,       \* per thread: its current or last call, with its outcome
    hist,       \* every _get_new_and_increment return since the last reset
    submitted,  \* the number of add_wf calls since the last reset
    waiting_key \* Firework.to_dict() of a WAITING firework has the key 'state'

vars == <<created, meta, fireworks, workflows, mapping, pc, loc, last, hist,
          submitted, waiting_key>>

Threads == {"main", "worker"}

\* the thread that ran __init__ and so created the sqlite connection
Owner == "main"

Counters == {"next_fw_id", "next_launch_id", "next_workflow_id"}

NoMap == [x \in {} |-> 0]

NoWf == [ids |-> <<>>, links |-> {}, state |-> NoMap, fw_states |-> NoMap,
         json_ok |-> TRUE]

NoLoc == [op |-> "none", counter |-> "none", qty |-> 0, cont |-> "none",
          next_id |-> 0, wf |-> NoWf, reassign_all |-> FALSE,
          old_new |-> NoMap, pending |-> <<>>, bulk |-> FALSE, rest |-> <<>>]

\* a connection made with check_same_thread=False: any thread may use it
ThreadCheckOff(t) == t \in Threads

\* sqlite3.connect(':memory:') keeps check_same_thread=True: a statement run
\* by a thread other than the creating one raises ProgrammingError
ThreadCheck(t) == t = Owner

\* the exception the first database statement of a call raises, or "ok"
DbError(t) ==
    IF ~ThreadCheck(t) THEN "ProgrammingError"
    ELSE IF ~created THEN "OperationalError"
    ELSE "ok"

\* what a thread's call came to: "pending" while it runs, "ok" or the name of
\* the exception it raised; arg is its fw_id / launch_id / quantity argument
\* and value what it returned
Outcome(op, arg, outcome, value) ==
    [op |-> op, arg |-> arg, outcome |-> outcome, value |-> value]

\* the attributes __init__ gives the object (lines 59-61); reading any other
\* one raises AttributeError
HasAttr(name) == name \in {"_db", "logdir"}

Init ==
    /\ created = FALSE
    /\ meta = [c \in Counters |-> 0]
    /\ fireworks = <<>>
    /\ workflows = <<>>
    /\ mapping = <<>>
    /\ pc = [t \in Threads |-> "idle"]
    /\ loc = [t \in Threads |-> NoLoc]
    /\ last = [t \in Threads |-> Outcome("none", 0, "ok", 0)]
    /\ hist = <<>>
    /\ submitted = 0
    /\ waiting_key \in BOOLEAN

\* ------------------------------------------------------------------- reset
\* a reset that creates the tables only where there are none (CREATE TABLE IF
\* NOT EXISTS, no DROP): a store that was reset before keeps its contents
ResetNoDrop(t) ==
    /\ pc[t] = "idle"
    /\ IF ThreadCheck(t)
       THEN /\ created' = TRUE
            /\ meta' = IF created THEN meta ELSE [c \in Counters |-> 1]
            /\ last' = [last EXCEPT ![t] = Outcome("reset", 0, "ok", 0)]
       ELSE /\ last' = [last EXCEPT ![t] =
                           Outcome("reset", 0, "ProgrammingError", 0)]
            /\ UNCHANGED <<created, meta>>
    /\ UNCHANGED <<fireworks, workflows, mapping, hist, submitted, pc, loc, waiting_key>>

Reset(t) ==
    /\ pc[t] = "idle"
    /\ IF ThreadCheck(t)
       THEN /\ created' = TRUE
            /\ meta' = [c \in Counters |-> 1]
            /\ fireworks' = <<>>
            /\ workflows' = <<>>
            /\ mapping' = <<>>
            /\ hist' = <<>>
            /\ submitted' = 0
            /\ last' = [last EXCEPT ![t] = Outcome("reset", 0, "ok", 0)]
       ELSE /\ last' = [last EXCEPT ![t] =
                           Outcome("reset", 0, "ProgrammingError", 0)]
            /\ UNCHANGED <<created, meta, fireworks, workflows, mapping, hist,
                           submitted>>
    /\ UNCHANGED <<pc, loc, waiting_key>>

\* ------------------------------------------------ _get_new_and_increment
\* SELECT value FROM meta WHERE name = ?
AllocSelect(t) ==
    /\ pc[t] = "alloc_select"
    /\ loc' = [loc EXCEPT ![t].next_id = meta[loc[t].counter]]
    /\ pc' = [pc EXCEPT ![t] = "alloc_update"]
    /\ UNCHANGED <<waiting_key, created, meta, fireworks, workflows, mapping, last, hist,
                   submitted>>

\* UPDATE meta SET value = ? WHERE name = ?, the commit, and the return of
\* next_id to the caller, which goes on according to loc.cont
AllocUpdate(t) ==
    /\ pc[t] = "alloc_update"
    /\ LET l == loc[t]
           v == l.next_id
       IN  /\ meta' = [meta EXCEPT ![l.counter] = v + l.qty]
           /\ hist' = Append(hist, [counter |-> l.counter, first |-> v,
                                    qty |-> l.qty])
           /\ CASE l.cont = "return" ->
                    \* get_new_fw_id / get_new_launch_id / _get_new_workflow_id
                    \* called directly
                    /\ pc' = [pc EXCEPT ![t] = "idle"]
                    /\ loc' = [loc EXCEPT ![t] = NoLoc]
                    /\ last' = [last EXCEPT ![t] =
                                   Outcome(l.counter, l.qty, "ok", v)]
                [] l.cont = "first_new_id" ->
                    \* _upsert_fws, reassign_all: first_new_id = get_new_fw_id(n)
                    /\ pc' = [pc EXCEPT ![t] = "upsert_write"]
                    /\ loc' = loc
                    /\ last' = last
                [] l.cont = "new_id" ->
                    \* _upsert_fws, not reassign_all: one id per negative fw_id
                    \* lines 379-381: old_new[fw.fw_id] = new_id
                    /\ loc' = [loc EXCEPT
                                 ![t].old_new =
                                     [k \in DOMAIN l.old_new \cup {Head(l.pending)} |->
                                         IF k = Head(l.pending) THEN v
                                         ELSE l.old_new[k]],
                                 ![t].pending = Tail(l.pending)]
                    /\ pc' = [pc EXCEPT ![t] =
                                 IF Tail(l.pending) = <<>> THEN "upsert_write"
                                 ELSE "alloc_select"]
                    /\ last' = last
                [] l.cont = "wf_id" ->
                    \* add_wf line 115: wf_id is not used again
                    /\ loc' = [loc EXCEPT ![t].cont = "workflow_id"]
                    /\ pc' = [pc EXCEPT ![t] = "alloc_select"]
                    /\ last' = last
                [] l.cont = "workflow_id" ->
                    \* add_wf line 118, inside the with block of line 117
                    /\ pc' = [pc EXCEPT ![t] = "wf_insert"]
                    /\ loc' = loc
                    /\ last' = last
    /\ UNCHANGED <<waiting_key, created, fireworks, workflows, mapping, submitted>>

\* a direct call of get_new_fw_id(quantity), get_new_launch_id() or
\* _get_new_workflow_id(quantity)
GetNewAndIncrement(t, counter, quantity) ==
    /\ pc[t] = "idle"
    /\ Len(hist) < MaxAllocs
    /\ counter = "next_launch_id" => quantity = 1
    /\ IF DbError(t) = "ok"
       THEN /\ pc' = [pc EXCEPT ![t] = "alloc_select"]
            /\ loc' = [loc EXCEPT ![t] = [NoLoc EXCEPT !.op = counter,
                          !.counter = counter, !.qty = quantity,
                          !.cont = "return"]]
            /\ last' = [last EXCEPT ![t] =
                           Outcome(counter, quantity, "pending", 0)]
       ELSE /\ last' = [last EXCEPT ![t] =
                           Outcome(counter, quantity, DbError(t), 0)]
            /\ UNCHANGED <<pc, loc>>
    /\ UNCHANGED <<waiting_key, created, meta, fireworks, workflows, mapping, hist, submitted>>

\* ---------------------------------------------------------------- Workflow
\* the workflows a caller submits: a shape over the positions 1..n, the ids
\* its fireworks carry, and the state each firework object holds
Shapes ==
    { [n |-> 1, links |-> {}],
      [n |-> 2, links |-> {<<1, 2>>}],
      [n |-> 3, links |-> {<<1, 2>>, <<2, 3>>}],
      [n |-> 3, links |-> {<<1, 3>>, <<2, 3>>}] }

InStates == {"WAITING", "COMPLETED", "FIZZLED"}

\* positions with an incoming and an outgoing edge
InnerPos(sh) == {c \in 1..sh.n : /\ \E p \in 1..sh.n : <<p, c>> \in sh.links
                                  /\ \E d \in 1..sh.n : <<c, d>> \in sh.links}

\* a firework is built WAITING; one that was run before it is submitted
\* (a workflow read back from a dump) carries the state it ended in.  The
\* state a root or a leaf carries has no effect here: add_wf overwrites the
\* root's, and no other node depends on the leaf's
InStateMaps(sh) ==
    {st \in [1..sh.n -> InStates] :
        \A i \in 1..sh.n : i \notin InnerPos(sh) => st[i] = "WAITING"}

\* "new": the fireworks carry the negative ids -1..-n of unsaved fireworks;
\* "stored": they carry the positive ids 1..n
IdModes == {"new", "stored"}

InputId(mode, i) == IF mode = "new" THEN 0 - i ELSE i

InputWf(sh, mode, st, json_ok) ==
    [ids |-> [i \in 1..sh.n |-> InputId(mode, i)],
     links |-> {<<InputId(mode, e[1]), InputId(mode, e[2])>> : e \in sh.links},
     state |-> [k \in {InputId(mode, i) : i \in 1..sh.n} |->
                   st[CHOOSE i \in 1..sh.n : InputId(mode, i) = k]],
     fw_states |-> [k \in {InputId(mode, i) : i \in 1..sh.n} |->
                   st[CHOOSE i \in 1..sh.n : InputId(mode, i) = k]],
     json_ok |-> json_ok]

InputWfs ==
    UNION { {InputWf(sh, mode, st, j) :
                mode \in IdModes, st \in InStateMaps(sh), j \in BOOLEAN} :
            sh \in Shapes }

\* add_wf(wf, reassign_all): any workflow with either flag; reassign_all=True
\* is the default (line 101)
Submissions == InputWfs \X BOOLEAN

\* bulk_add_wfs(wfs): the lists of at most MaxWfs workflows
BulkLists ==
    UNION { [1..n -> InputWfs] : n \in 0..MaxWfs }

RECURSIVE SumIds(_)
SumIds(wfs) == IF wfs = <<>> THEN 0 ELSE Len(Head(wfs).ids) + SumIds(Tail(wfs))

\* Workflow.root_fw_ids: the fireworks no link points to
RootFwIds(wf) == {k \in Range(wf.ids) : ~\E e \in wf.links : e[2] = k}

NewId(old_new, k) == IF k \in DOMAIN old_new THEN old_new[k] ELSE k

\* Workflow._reassign_ids(old_new): id_fw, links and fw_states are re-keyed;
\* the firework objects already carry their new fw_id
ReassignIds(wf, old_new) ==
    LET N(k) == NewId(old_new, k)
        Old(k) == CHOOSE o \in Range(wf.ids) : N(o) = k
        keys == {N(o) : o \in Range(wf.ids)}
    IN  [ids |-> [i \in 1..Len(wf.ids) |-> N(wf.ids[i])],
         links |-> {<<N(e[1]), N(e[2])>> : e \in wf.links},
         state |-> [k \in keys |-> wf.state[Old(k)]],
         fw_states |-> [k \in keys |-> wf.fw_states[Old(k)]],
         json_ok |-> wf.json_ok]

\* ------------------------------------------------------------------ add_wf
\* add_wf lines 106-108: every root firework is set READY, in the object and
\* in wf.fw_states
SetRootsReady(wf) ==
    [wf EXCEPT !.state = [k \in DOMAIN wf.state |->
                    IF k \in RootFwIds(wf) THEN "READY" ELSE wf.state[k]],
               !.fw_states = [k \in DOMAIN wf.fw_states |->
                    IF k \in RootFwIds(wf) THEN "READY" ELSE wf.fw_states[k]]]

\* the locals of add_wf(w, reassign_all) when it enters _upsert_fws (lines
\* 106-112, 356-362, 378-380)
AddWfLocals(w, reassign_all) ==
    LET wf == SetRootsReady(w)
        neg == SortedIds({k \in Range(wf.ids) : k < 0})
        l == [NoLoc EXCEPT !.op = "add_wf", !.wf = wf,
                 !.reassign_all = reassign_all,
                 !.counter = "next_fw_id"]
    IN  IF reassign_all
        THEN [l EXCEPT !.qty = Len(wf.ids), !.cont = "first_new_id"]
        ELSE [l EXCEPT !.qty = 1, !.cont = "new_id", !.pending = neg]

\* the first database statement of _upsert_fws: get_new_fw_id where an id is
\* needed, the INSERT otherwise
AddWfPc(w, reassign_all) ==
    IF reassign_all \/ \E k \in Range(w.ids) : k < 0 THEN "alloc_select"
    ELSE "upsert_write"

\* the call of add_wf up to the first database statement of _upsert_fws
AddWf(t, w, reassign_all) ==
    /\ pc[t] = "idle"
    /\ Len(fireworks) + Len(w.ids) <= MaxRows
    /\ submitted < MaxWfs
    /\ submitted' = submitted + 1
    /\ IF DbError(t) = "ok"
       THEN /\ loc' = [loc EXCEPT ![t] = AddWfLocals(w, reassign_all)]
            /\ pc' = [pc EXCEPT ![t] = AddWfPc(w, reassign_all)]
            /\ last' = [last EXCEPT ![t] =
                           Outcome("add_wf", 0, "pending", 0)]
       ELSE /\ last' = [last EXCEPT ![t] =
                           Outcome("add_wf", 0, DbError(t), 0)]
            /\ UNCHANGED <<pc, loc>>
    /\ UNCHANGED <<waiting_key, created, meta, fireworks, workflows, mapping, hist>>

\* bulk_add_wfs(wfs) lines 126-128: add_wf(wf) with its default
\* reassign_all=True for each workflow in turn (WfInsert goes on to the next
\* one); an exception of one add_wf ends the loop.  An empty list runs no
\* statement
BulkAddWfs(t, wfs) ==
    /\ pc[t] = "idle"
    /\ Len(fireworks) + SumIds(wfs) <= MaxRows
    /\ submitted + Len(wfs) <= MaxWfs
    /\ submitted' = submitted + Len(wfs)
    /\ IF wfs = <<>>
       THEN /\ last' = [last EXCEPT ![t] =
                           Outcome("bulk_add_wfs", 0, "ok", 0)]
            /\ UNCHANGED <<pc, loc>>
       ELSE IF DbError(t) = "ok"
       THEN /\ loc' = [loc EXCEPT ![t] =
                          [AddWfLocals(Head(wfs), TRUE) EXCEPT
                              !.bulk = TRUE, !.rest = Tail(wfs)]]
            /\ pc' = [pc EXCEPT ![t] = AddWfPc(Head(wfs), TRUE)]
            /\ last' = [last EXCEPT ![t] =
                           Outcome("bulk_add_wfs", Len(wfs), "pending", 0)]
       ELSE /\ last' = [last EXCEPT ![t] =
                           Outcome("bulk_add_wfs", Len(wfs), DbError(t), 0)]
            /\ UNCHANGED <<pc, loc>>
    /\ UNCHANGED <<waiting_key, created, meta, fireworks, workflows, mapping, hist>>

\* an _upsert_fws that numbers the fireworks without sorting them first, here
\* from the largest old id down
UpsertOldNewUnsorted(l) ==
    LET sorted == SortedIds(Range(l.wf.ids))
        n == Len(sorted)
    IN  IF l.reassign_all
        THEN [k \in Range(l.wf.ids) |-> l.next_id + n - (CHOOSE i \in 1..n : sorted[i] = k)]
        ELSE l.old_new

\* _upsert_fws lines 357-387: the old -> new ids of the sorted fireworks
UpsertOldNew(l) ==
    LET sorted == SortedIds(Range(l.wf.ids))
    IN  IF l.reassign_all
        THEN [k \in Range(l.wf.ids) |-> l.next_id + (CHOOSE i \in 1..Len(sorted) : sorted[i] = k) - 1]
        ELSE l.old_new

\* Firework.to_dict() has the key 'state': always for a firework that is
\* not WAITING, for a WAITING one where the class writes it
ToDictHasState(state) == state # "WAITING" \/ waiting_key

\* firework_to_sqlite line 36, state = d.pop('state', None): the state column
\* is NULL ("None") where to_dict() has no such key
StateColumn(state) == IF ToDictHasState(state) THEN state ELSE "None"

\* the rows _upsert_fws inserts, one per firework, in sorted order
UpsertRows(wf, old_new) ==
    LET sorted == SortedIds(Range(wf.ids))
    IN  [i \in 1..Len(sorted) |->
            [fw_id |-> NewId(old_new, sorted[i]),
             state |-> StateColumn(wf.state[sorted[i]])]]

\* the fireworks table after the transaction of _upsert_fws: with
\* reassign_all the rows of the ids handed out are deleted first (lines
\* 373-376); without it the rows are inserted and nothing is deleted (384)
UpsertTable(table, rows, reassign_all) ==
    LET used == {rows[i].fw_id : i \in 1..Len(rows)}
        Keep(r) == r.fw_id \notin used
    IN  IF reassign_all THEN SelectSeq(table, Keep) \o rows
        ELSE table \o rows

\* _upsert_fws' write and return, wf._reassign_ids(old_new) (line 113)
UpsertWrite(t) ==
    /\ pc[t] = "upsert_write"
    /\ loc[t].op = "add_wf"
    /\ LET l == loc[t]
           old_new == UpsertOldNew(l)
       IN  /\ fireworks' = UpsertTable(fireworks, UpsertRows(l.wf, old_new),
                                       l.reassign_all)
           /\ loc' = [loc EXCEPT ![t] = [l EXCEPT
                         !.wf = ReassignIds(l.wf, old_new),
                         !.old_new = old_new,
                         !.counter = "next_workflow_id", !.qty = 1,
                         !.cont = "wf_id"]]
           /\ pc' = [pc EXCEPT ![t] = "alloc_select"]
    /\ UNCHANGED <<waiting_key, created, meta, workflows, mapping, last, hist, submitted>>

\* the row workflow_to_sqlite(wf) gives under the id wf_id
WorkflowRow(wf_id, wf) ==
    [wf_id |-> wf_id, nodes |-> wf.ids, links |-> wf.links,
     fw_states |-> wf.fw_states]

MappingRows(wf_id, wf) ==
    [i \in 1..Len(wf.ids) |-> [firework_id |-> wf.ids[i], workflow_id |-> wf_id]]

\* add_wf lines 119-124: the workflows row and the mapping rows in one
\* transaction; json.dumps raises TypeError on a workflow whose metadata is
\* not serialisable, and the with block rolls back.  Inside bulk_add_wfs
\* (line 127) the return value is dropped and the loop takes the next
\* workflow; the exception leaves the loop
WfInsert(t) ==
    /\ pc[t] = "wf_insert"
    /\ LET l == loc[t]
           op == IF l.bulk THEN "bulk_add_wfs" ELSE "add_wf"
           arg == IF l.bulk THEN last[t].arg ELSE 0
       IN  IF l.wf.json_ok
           THEN /\ workflows' = Append(workflows, WorkflowRow(l.next_id, l.wf))
                /\ mapping' = mapping \o MappingRows(l.next_id, l.wf)
                /\ IF l.bulk /\ l.rest # <<>>
                   THEN /\ loc' = [loc EXCEPT ![t] =
                                      [AddWfLocals(Head(l.rest), TRUE) EXCEPT
                                          !.bulk = TRUE, !.rest = Tail(l.rest)]]
                        /\ pc' = [pc EXCEPT ![t] = AddWfPc(Head(l.rest), TRUE)]
                        /\ last' = last
                   ELSE /\ loc' = [loc EXCEPT ![t] = NoLoc]
                        /\ pc' = [pc EXCEPT ![t] = "idle"]
                        /\ last' = [last EXCEPT ![t] = Outcome(op, arg, "ok",
                                       IF l.bulk THEN 0 ELSE l.old_new)]
           ELSE /\ last' = [last EXCEPT ![t] =
                               Outcome(op, arg, "TypeError", 0)]
                /\ pc' = [pc EXCEPT ![t] = "idle"]
                /\ loc' = [loc EXCEPT ![t] = NoLoc]
                /\ UNCHANGED <<workflows, mapping>>
    /\ UNCHANGED <<waiting_key, created, meta, fireworks, hist, submitted>>

\* ------------------------------------------------------------- checkout_fw
\* the fw_id arguments of checkout_fw, _refresh_wf: 0 stands for None
FwIdArgs == 0..MaxRows

\* _get_a_fw_to_run lines 242-245: both branches read self.fireworks first;
\* the lines after them are reached only on an object that has the attribute
GetAFwToRun(fw_id) ==
    IF ~HasAttr("fireworks") THEN "AttributeError" ELSE "None"

\* checkout_fw: line 287 raises, or line 289 returns (None, None); no table
\* and no counter is touched before
CheckoutFw(t, fw_id) ==
    /\ pc[t] = "idle"
    /\ last' = [last EXCEPT ![t] =
                   Outcome("checkout_fw", fw_id, GetAFwToRun(fw_id), 0)]
    /\ UNCHANGED <<waiting_key, created, meta, fireworks, workflows, mapping, pc, loc, hist,
                   submitted>>

\* complete_launch lines 328-329
CompleteLaunch(t, launch_id, state) ==
    /\ pc[t] = "idle"
    /\ last' = [last EXCEPT ![t] =
                   Outcome("complete_launch", launch_id, "NotImplementedError", 0)]
    /\ UNCHANGED <<waiting_key, created, meta, fireworks, workflows, mapping, pc, loc, hist,
                   submitted>>

\* --------------------------------------------------------------- lookups
\* SELECT * FROM fireworks WHERE fw_id = ? ... fetchone(): the oldest row
FwRows(fw_id) ==
    LET Is(r) == r.fw_id = fw_id IN SelectSeq(fireworks, Is)

MappingOf(fw_id) ==
    LET Is(r) == r.firework_id = fw_id IN SelectSeq(mapping, Is)

WorkflowsOf(wf_id) ==
    LET Is(r) == r.wf_id = wf_id IN SelectSeq(workflows, Is)

\* get_wf_by_fw_id_lzyfw lines 166-171: the workflows row owning fw_id;
\* fetchone()[0] raises TypeError when there is no row
HasWf(fw_id) ==
    /\ MappingOf(fw_id) # <<>>
    /\ WorkflowsOf(MappingOf(fw_id)[1].workflow_id) # <<>>

WfRowOf(fw_id) == WorkflowsOf(MappingOf(fw_id)[1].workflow_id)[1]

\* cursor.fetchone(): the first row of the result as <<row>>, None as <<>>
FetchOne(rows) == IF rows = <<>> THEN <<>> ELSE <<rows[1]>>

\* a sqlite_to_firework that answers None with an empty firework dict
SqliteToFireworkDefault(val) ==
    IF val = <<>>
    THEN [outcome |-> "ok", value |-> [fw_id |-> 0, state |-> "WAITING"]]
    ELSE [outcome |-> "ok", value |-> val[1]]

\* sqlite_to_firework(val) lines 41-48 on the columns fw_id and state:
\* unpacking None (line 42) raises TypeError
SqliteToFirework(val) ==
    IF val = <<>>
    THEN [outcome |-> "TypeError", value |-> [fw_id |-> 0, state |-> "none"]]
    ELSE [outcome |-> "ok", value |-> val[1]]

\* what get_fw_dict_by_id(fw_id) comes to on a store that can be read
FwDictById(fw_id) == SqliteToFirework(FetchOne(FwRows(fw_id)))

\* what get_wf_by_fw_id(fw_id) comes to: fetchone()[0] on the mapping row
\* (line 152) and on the workflows row (155), then one get_fw_by_id per node
\* (159); the value is the Workflow built from them
WfByFwId(fw_id) ==
    IF ~HasWf(fw_id) THEN [outcome |-> "TypeError", nodes |-> <<>>,
                           links |-> {}, state |-> NoMap]
    ELSE LET row == WfRowOf(fw_id)
         IN  IF \E k \in Range(row.nodes) : FwDictById(k).outcome # "ok"
             THEN [outcome |-> "TypeError", nodes |-> <<>>, links |-> {},
                   state |-> NoMap]
             ELSE [outcome |-> "ok", nodes |-> row.nodes, links |-> row.links,
                   state |-> [k \in Range(row.nodes) |->
                                 FwDictById(k).value.state]]

\* get_fw_dict_by_id lines 136-141
GetFwDictById(t, fw_id) ==
    /\ pc[t] = "idle"
    /\ last' = [last EXCEPT ![t] =
         IF DbError(t) # "ok"
         THEN Outcome("get_fw_dict_by_id", fw_id, DbError(t), 0)
         ELSE Outcome("get_fw_dict_by_id", fw_id, FwDictById(fw_id).outcome,
                      FwDictById(fw_id).value)]
    /\ UNCHANGED <<waiting_key, created, meta, fireworks, workflows, mapping, pc, loc, hist,
                   submitted>>

\* get_fw_by_id lines 143-144: Firework.from_dict of the same dict
GetFwById(t, fw_id) ==
    /\ pc[t] = "idle"
    /\ last' = [last EXCEPT ![t] =
         IF DbError(t) # "ok"
         THEN Outcome("get_fw_by_id", fw_id, DbError(t), 0)
         ELSE Outcome("get_fw_by_id", fw_id, FwDictById(fw_id).outcome,
                      FwDictById(fw_id).value)]
    /\ UNCHANGED <<waiting_key, created, meta, fireworks, workflows, mapping, pc, loc, hist,
                   submitted>>

\* get_wf_by_fw_id lines 146-163
GetWfByFwId(t, fw_id) ==
    /\ pc[t] = "idle"
    /\ last' = [last EXCEPT ![t] =
         IF DbError(t) # "ok"
         THEN Outcome("get_wf_by_fw_id", fw_id, DbError(t), 0)
         ELSE Outcome("get_wf_by_fw_id", fw_id, WfByFwId(fw_id).outcome,
                      WfByFwId(fw_id))]
    /\ UNCHANGED <<waiting_key, created, meta, fireworks, workflows, mapping, pc, loc, hist,
                   submitted>>

\* ------------------------------------------------------------- _refresh_wf
Parents(links, k) == {e[1] : e \in {x \in links : x[2] = k}}

Children(links, k) == {e[2] : e \in {x \in links : x[1] = k}}

Terminal == {"COMPLETED", "FIZZLED"}

\* the descendants a defusal reaches: it goes down the links and stops at
\* nodes that are already terminal
RECURSIVE DefuseReach(_, _, _, _)
DefuseReach(links, st, frontier, seen) ==
    LET next == {c \in UNION {Children(links, k) : k \in frontier} :
                    st[c] \notin Terminal /\ c \notin seen}
    IN  IF next = {} THEN seen
        ELSE DefuseReach(links, st, next, seen \cup next)

\* Workflow.refresh(fw_id) on the member states st: the new state of every
\* member.  A WAITING child of a COMPLETED node becomes READY iff all its
\* parents are COMPLETED; the descendants of a FIZZLED or DEFUSED node
\* become DEFUSED
Refresh(links, st, fw_id) ==
    CASE st[fw_id] = "COMPLETED" ->
            [k \in DOMAIN st |->
                IF /\ k \in Children(links, fw_id)
                   /\ st[k] = "WAITING"
                   /\ \A p \in Parents(links, k) : st[p] = "COMPLETED"
                THEN "READY" ELSE st[k]]
      [] st[fw_id] \in {"FIZZLED", "DEFUSED"} ->
            [k \in DOMAIN st |->
                IF k \in DefuseReach(links, st, {fw_id}, {})
                THEN "DEFUSED" ELSE st[k]]
      [] OTHER -> st

\* _refresh_wf line 398, updated_ids = wf.refresh(fw_id), on the workflow
\* get_wf_by_fw_id_lzyfw builds from the workflows row: its states are the
\* cached fw_states (lines 178-186; a LazyFirework reads no fireworks row)
UpdatedIds(row, fw_id) ==
    LET new == Refresh(row.links, row.fw_states, fw_id)
    IN  {k \in DOMAIN row.fw_states : new[k] # row.fw_states[k]}

\* an _update_wf that hands every firework of the workflow to _upsert_fws
UpdatedFwsAll(row, updated_ids) == Range(row.nodes)

\* _update_wf line 403: the fireworks handed to _upsert_fws are those of
\* updated_ids
UpdatedFws(row, updated_ids) == updated_ids

\* _refresh_wf lines 397-399 and _update_wf lines 403-417: the changed
\* fireworks are handed to _upsert_fws, which inserts one row each (line
\* 385).  They are LazyFirework objects, which hold fw_id and hook only
\* (lines 449-451): to_dict() in firework_to_sqlite either gives the row or
\* raises, and then the with block writes nothing.  With the rows written
\* the call goes on to line 417, which reads self.workflows
RefreshWf(t, fw_id) ==
    /\ pc[t] = "idle"
    /\ IF DbError(t) # "ok"
       THEN /\ last' = [last EXCEPT ![t] =
                           Outcome("_refresh_wf", fw_id, DbError(t), 0)]
            /\ UNCHANGED fireworks
       ELSE IF ~HasWf(fw_id)
       THEN /\ last' = [last EXCEPT ![t] =
                           Outcome("_refresh_wf", fw_id, "TypeError", 0)]
            /\ UNCHANGED fireworks
       ELSE LET row == WfRowOf(fw_id)
                new == Refresh(row.links, row.fw_states, fw_id)
                fws == UpdatedFws(row, UpdatedIds(row, fw_id))
                wf == [ids |-> SortedIds(fws), links |-> {},
                       state |-> new, fw_states |-> new, json_ok |-> TRUE]
            IN  \E to_dict_ok \in BOOLEAN :
                   /\ to_dict_ok =>
                         Len(fireworks) + Cardinality(fws) <= MaxRows + MaxExtraRows
                   /\ fireworks' =
                         IF to_dict_ok
                         THEN UpsertTable(fireworks, UpsertRows(wf, NoMap), FALSE)
                         ELSE fireworks
                   /\ last' = [last EXCEPT ![t] = Outcome("_refresh_wf", fw_id,
                                 IF (to_dict_ok \/ fws = {}) /\ HasAttr("workflows")
                                 THEN "ok" ELSE "AttributeError",
                                 0)]
    /\ UNCHANGED <<waiting_key, created, meta, workflows, mapping, pc, loc, hist, submitted>>

\* ----------------------------------------------------------- serialisation
\* Python values as trees: None, str, int, list and dict with str keys
PyVal(kind, text, num, items, fields) ==
    [kind |-> kind, text |-> text, num |-> num, items |-> items,
     fields |-> fields]

PyNone == PyVal("None", "", 0, <<>>, {})

PyStr(s) == PyVal("str", s, 0, <<>>, {})

PyInt(n) == PyVal("int", "", n, <<>>, {})

PyList(items) == PyVal("list", "", 0, items, {})

PyDict(fields) == PyVal("dict", "", 0, <<>>, fields)

Item(k, v) == [key |-> k, val |-> v]

\* key in d
HasKey(d, k) == \E f \in d.fields : f.key = k

\* d[key]
GetKey(d, k) == (CHOOSE f \in d.fields : f.key = k).val

\* d after d.pop(key, default)
PopKey(d, k) == PyDict({f \in d.fields : f.key # k})

\* d after d[key] = v
SetKey(d, k, v) == PyDict({f \in d.fields : f.key # k} \cup {Item(k, v)})

\* one token of JSON text
Tok(tok, text, num) == [tok |-> tok, text |-> text, num |-> num]

\* json.dumps: the JSON text of a value, as its sequence of tokens
RECURSIVE Dumps(_)
RECURSIVE DumpsItems(_)
RECURSIVE DumpsFields(_)
Dumps(v) ==
    CASE v.kind = "None" -> <<Tok("null", "", 0)>>
      [] v.kind = "str" -> <<Tok("str", v.text, 0)>>
      [] v.kind = "int" -> <<Tok("int", "", v.num)>>
      [] v.kind = "list" ->
            <<Tok("[", "", 0)>> \o DumpsItems(v.items) \o <<Tok("]", "", 0)>>
      [] v.kind = "dict" ->
            <<Tok("{", "", 0)>> \o DumpsFields(v.fields) \o <<Tok("}", "", 0)>>

DumpsItems(items) ==
    IF items = <<>> THEN <<>>
    ELSE Dumps(Head(items)) \o DumpsItems(Tail(items))

DumpsFields(fields) ==
    IF fields = {} THEN <<>>
    ELSE LET f == CHOOSE x \in fields : TRUE
         IN  <<Tok("key", f.key, 0)>> \o Dumps(f.val)
                 \o DumpsFields(fields \ {f})

\* json.loads: the value read from the tokens from position i on, and the
\* position after it
RECURSIVE ParseValue(_, _)
RECURSIVE ParseList(_, _, _)
RECURSIVE ParseDict(_, _, _)
ParseValue(toks, i) ==
    CASE toks[i].tok = "null" -> [val |-> PyNone, next |-> i + 1]
      [] toks[i].tok = "str" -> [val |-> PyStr(toks[i].text), next |-> i + 1]
      [] toks[i].tok = "int" -> [val |-> PyInt(toks[i].num), next |-> i + 1]
      [] toks[i].tok = "[" -> ParseList(toks, i + 1, <<>>)
      [] toks[i].tok = "{" -> ParseDict(toks, i + 1, PyDict({}))

ParseList(toks, i, acc) ==
    IF toks[i].tok = "]" THEN [val |-> PyList(acc), next |-> i + 1]
    ELSE LET r == ParseValue(toks, i)
         IN  ParseList(toks, r.next, Append(acc, r.val))

ParseDict(toks, i, acc) ==
    IF toks[i].tok = "}" THEN [val |-> acc, next |-> i + 1]
    ELSE LET r == ParseValue(toks, i + 1)
         IN  ParseDict(toks, r.next, SetKey(acc, toks[i].text, r.val))

Loads(toks) == ParseValue(toks, 1).val

\* firework_to_sqlite lines 33-39 on d = firework.to_dict()
FireworkToSqlite(d) ==
    [fw_id |-> GetKey(d, "fw_id"),
     state |-> IF HasKey(d, "state") THEN GetKey(d, "state") ELSE PyNone,
     data |-> Dumps(PopKey(PopKey(d, "fw_id"), "state"))]

\* sqlite_to_firework lines 42-48 on a row with its data column
SqliteToFireworkDict(row) ==
    SetKey(SetKey(Loads(row.data), "fw_id", row.fw_id), "state", row.state)

\* workflow_to_sqlite lines 50-51 on d = workflow.to_db_dict()
WorkflowToSqlite(d) == Dumps(d)

\* sqlite_to_workflow lines 53-54
SqliteToWorkflow(data) == Loads(data)

\* the spec of a firework: empty, flat, nested, with lists, None and
\* non-ASCII text
SpecValues ==
    { PyDict({}),
      PyDict({Item("a", PyInt(1))}),
      PyDict({Item("a", PyDict({Item("b", PyList(<<>>))}))}),
      PyDict({Item("a", PyList(<<PyInt(1), PyStr("ü")>>)),
              Item("b", PyNone),
              Item("c", PyDict({}))}) }

\* Firework.to_dict(): fw_id and spec always, state and name where set
FireworkDicts ==
    { PyDict({Item("fw_id", PyInt(k)), Item("spec", sp)} \cup st \cup nm) :
        k \in FwIdArgs \ {0}, sp \in SpecValues,
        st \in {{}, {Item("state", PyStr("READY"))},
                {Item("state", PyStr("COMPLETED"))}},
        nm \in {{}, {Item("name", PyStr("fw"))}} }

\* Workflow.to_db_dict(): nodes, links, name, metadata and fw_states
WorkflowDicts ==
    { PyDict({Item("nodes", PyList(<<PyInt(1), PyInt(2)>>)),
              Item("links", PyDict({Item("1", PyList(<<PyInt(2)>>)),
                                    Item("2", PyList(<<>>))})),
              Item("name", PyStr(nm)),
              Item("metadata", md),
              Item("fw_states", PyDict({Item("1", PyStr("READY")),
                                        Item("2", PyStr(s2))}))}) :
        nm \in {"", "wf"}, md \in SpecValues, s2 \in {"WAITING", "COMPLETED"} }

\* a firework dict or a workflow dict is at hand on a new store
InitCodec ==
    /\ created = FALSE
    /\ meta = [c \in Counters |-> 0]
    /\ fireworks = <<>>
    /\ workflows = <<>>
    /\ mapping = <<>>
    /\ pc = [t \in Threads |-> "idle"]
    /\ loc = [t \in Threads |-> NoLoc]
    /\ \E v \in {Outcome("to_dict", d, "ok", d) : d \in FireworkDicts}
                \cup {Outcome("to_db_dict", d, "ok", d) : d \in WorkflowDicts} :
          last = [t \in Threads |->
                     IF t = Owner THEN v ELSE Outcome("none", 0, "ok", 0)]
    /\ hist = <<>>
    /\ submitted = 0
    /\ waiting_key = FALSE

\* firework_to_sqlite applied to the dict at hand
ApplyFireworkToSqlite(t) ==
    /\ last[t].op = "to_dict"
    /\ last' = [last EXCEPT ![t] = Outcome("firework_to_sqlite", last[t].arg,
                                           "ok", FireworkToSqlite(last[t].value))]
    /\ UNCHANGED <<waiting_key, created, meta, fireworks, workflows, mapping, pc, loc, hist,
                   submitted>>

\* sqlite_to_firework applied to the row firework_to_sqlite gave
ApplySqliteToFirework(t) ==
    /\ last[t].op = "firework_to_sqlite"
    /\ last' = [last EXCEPT ![t] = Outcome("sqlite_to_firework", last[t].arg,
                                           "ok", SqliteToFireworkDict(last[t].value))]
    /\ UNCHANGED <<waiting_key, created, meta, fireworks, workflows, mapping, pc, loc, hist,
                   submitted>>

\* workflow_to_sqlite applied to the dict at hand
ApplyWorkflowToSqlite(t) ==
    /\ last[t].op = "to_db_dict"
    /\ last' = [last EXCEPT ![t] = Outcome("workflow_to_sqlite", last[t].arg,
                                           "ok", WorkflowToSqlite(last[t].value))]
    /\ UNCHANGED <<waiting_key, created, meta, fireworks, workflows, mapping, pc, loc, hist,
                   submitted>>

\* sqlite_to_workflow applied to the text workflow_to_sqlite gave
ApplySqliteToWorkflow(t) ==
    /\ last[t].op = "workflow_to_sqlite"
    /\ last' = [last EXCEPT ![t] = Outcome("sqlite_to_workflow", last[t].arg,
                                           "ok", SqliteToWorkflow(last[t].value))]
    /\ UNCHANGED <<waiting_key, created, meta, fireworks, workflows, mapping, pc, loc, hist,
                   submitted>>

\* ----------------------------------------------------------- specifications
\* the calls of the thread that owns the connection, one at a time
Next ==
    \E t \in {Owner} :
        \/ Reset(t)
        \/ \E sub \in Submissions : AddWf(t, sub[1], sub[2])
        \/ \E wfs \in BulkLists : BulkAddWfs(t, wfs)
        \/ AllocSelect(t)
        \/ AllocUpdate(t)
        \/ UpsertWrite(t)
        \/ WfInsert(t)
        \/ \E f \in FwIdArgs : CheckoutFw(t, f)
        \/ \E f \in FwIdArgs \ {0} : RefreshWf(t, f)
        \/ \E st \in Terminal : CompleteLaunch(t, 1, st)

Spec == Init /\ [][Next]_vars

\* add_wf and _refresh_wf on the thread that owns the connection
NextRefresh ==
    \E t \in {Owner} :
        \/ Reset(t)
        \/ \E sub \in Submissions : AddWf(t, sub[1], sub[2])
        \/ AllocSelect(t)
        \/ AllocUpdate(t)
        \/ UpsertWrite(t)
        \/ WfInsert(t)
        \/ \E f \in FwIdArgs \ {0} : RefreshWf(t, f)

SpecRefresh == Init /\ [][NextRefresh]_vars

\* the allocator alone: reset and direct calls of the three get_new methods
NextAlloc ==
    \E t \in Threads :
        \/ Reset(t)
        \/ \E c \in Counters, q \in 1..MaxQty : GetNewAndIncrement(t, c, q)
        \/ AllocSelect(t)
        \/ AllocUpdate(t)

SpecAlloc == Init /\ [][NextAlloc]_vars

\* workers on two threads sharing the one store object
NextConc ==
    \E t \in Threads :
        \/ Reset(t)
        \/ \E sub \in Submissions : AddWf(t, sub[1], sub[2])
        \/ AllocSelect(t)
        \/ AllocUpdate(t)
        \/ UpsertWrite(t)
        \/ WfInsert(t)
        \/ \E f \in FwIdArgs : CheckoutFw(t, f)

SpecConc == Init /\ [][NextConc]_vars

\* two workers that each end a launch and then refresh its workflow, beside
\* the calls that fill the store
NextJoin ==
    \E t \in Threads :
        \/ Reset(t)
        \/ \E sub \in Submissions : AddWf(t, sub[1], sub[2])
        \/ AllocSelect(t)
        \/ AllocUpdate(t)
        \/ UpsertWrite(t)
        \/ WfInsert(t)
        \/ \E l \in 1..2 : CompleteLaunch(t, l, "COMPLETED")
        \/ \E f \in FwIdArgs \ {0} : RefreshWf(t, f)

SpecJoin == Init /\ [][NextJoin]_vars

\* reset among add_wf calls and block calls of get_new_fw_id, on the owning
\* thread
NextReset ==
    \E t \in {Owner} :
        \/ Reset(t)
        \/ \E sub \in Submissions : AddWf(t, sub[1], sub[2])
        \/ GetNewAndIncrement(t, "next_fw_id", MaxBlock)
        \/ AllocSelect(t)
        \/ AllocUpdate(t)
        \/ UpsertWrite(t)
        \/ WfInsert(t)

SpecReset == Init /\ [][NextReset]_vars

\* the lookups by id, among the calls that fill the store
NextRead ==
    \E t \in {Owner} :
        \/ Reset(t)
        \/ \E sub \in Submissions : AddWf(t, sub[1], sub[2])
        \/ AllocSelect(t)
        \/ AllocUpdate(t)
        \/ UpsertWrite(t)
        \/ WfInsert(t)
        \/ \E f \in FwIdArgs \ {0} : GetFwDictById(t, f)
        \/ \E f \in FwIdArgs \ {0} : GetFwById(t, f)
        \/ \E f \in FwIdArgs \ {0} : GetWfByFwId(t, f)

SpecRead == Init /\ [][NextRead]_vars

\* the four conversion functions applied to dicts
NextCodec ==
    \E t \in {Owner} :
        \/ ApplyFireworkToSqlite(t)
        \/ ApplySqliteToFirework(t)
        \/ ApplyWorkflowToSqlite(t)
        \/ ApplySqliteToWorkflow(t)

SpecCodec == InitCodec /\ [][NextCodec]_vars

\* ------------------------------------------------------------------ claims
\* the returns of one counter since the last reset, in commit order
HistOf(c) == LET Is(e) == e.counter = c IN SelectSeq(hist, Is)

IdRange(e) == e.first..(e.first + e.qty - 1)

\* C1: whatever the interleaving of the threads' get_new calls after a reset,
\* the ranges one counter has handed out are pairwise disjoint, together they
\* are exactly [1, 1 + sum of the quantities), and the counter stands at
\* 1 + that sum (no update is lost)
C1_RangesPartition ==
    created =>
        \A c \in Counters :
            LET h == HistOf(c)
            IN  /\ \A i, j \in 1..Len(h) :
                       i # j => IdRange(h[i]) \cap IdRange(h[j]) = {}
                /\ UNION {IdRange(h[i]) : i \in 1..Len(h)} = 1..SumQty(h)
                /\ meta[c] = 1 + SumQty(h)

\* C1 witness: one counter has handed out two ranges of different sizes, the
\* other thread has called it as well, and a further call is under way
C1_Witness ==
    /\ \E c \in Counters :
          /\ Len(HistOf(c)) >= 2
          /\ HistOf(c)[1].qty # HistOf(c)[2].qty
          /\ last["worker"].op = c
          /\ pc[Owner] = "alloc_update" /\ loc[Owner].counter = c

\* the positions of the fireworks rows in state READY
ReadyRows == {i \in 1..Len(fireworks) : fireworks[i].state = "READY"}

\* C2: a checkout_fw call without fw_id made on a store with a single READY
\* node receives that node, which is RUNNING afterwards, and a call made when
\* the only runnable node is already RUNNING receives (None, None); every
\* call of either thread is one atomic step, so of two concurrent callers on
\* a single READY node exactly one receives it
C2_OneReceivesTheNode ==
    [][\A t \in Threads :
          CheckoutFw(t, 0) =>
              /\ (/\ Cardinality(ReadyRows) = 1
                  /\ \A i \in ReadyRows : HasWf(fireworks[i].fw_id)
                  /\ \A u \in Threads : pc[u] = "idle") =>
                    \E i \in ReadyRows :
                        /\ last'[t].outcome = "ok"
                        /\ last'[t].value = fireworks[i].fw_id
                        /\ Len(fireworks') = Len(fireworks)
                        /\ fireworks'[i].state = "RUNNING"
              /\ (ReadyRows = {} /\ \E i \in 1..Len(fireworks) :
                                       fireworks[i].state = "RUNNING")
                    => last'[t].outcome = "None"]_vars

\* C3: at no point at which add_wf is not running, whether it returned or
\* raised between two of its transactions, does a fireworks row lack its
\* mapping row or a workflows row lack the mapping row of one of its nodes
C3_AddWfAtomic ==
    (\A t \in Threads : pc[t] = "idle") =>
        /\ \A i \in 1..Len(fireworks) : MappingOf(fireworks[i].fw_id) # <<>>
        /\ \A i \in 1..Len(workflows) : \A k \in Range(workflows[i].nodes) :
              \E j \in 1..Len(mapping) :
                  mapping[j] = [firework_id |-> k,
                                workflow_id |-> workflows[i].wf_id]

\* C4: the fireworks table never holds two rows with the same fw_id
C4_OneRowPerFwId ==
    \A i, j \in 1..Len(fireworks) :
        i # j => fireworks[i].fw_id # fireworks[j].fw_id

\* C5: once an add_wf call has returned, every stored node id has exactly one
\* mapping row, that row names a workflows row whose nodes contain the id,
\* and mapping rows and workflows rows account for each other
C5_MappingMatchesWorkflows ==
    (pc[Owner] = "idle" /\ last[Owner].op = "add_wf" /\ last[Owner].outcome = "ok") =>
        /\ \A i \in 1..Len(fireworks) :
              LET k == fireworks[i].fw_id
              IN  /\ Len(MappingOf(k)) = 1
                  /\ HasWf(k)
                  /\ k \in Range(WfRowOf(k).nodes)
        /\ \A j \in 1..Len(mapping) :
              WorkflowsOf(mapping[j].workflow_id) # <<>>
        /\ \A i \in 1..Len(workflows) : \A k \in Range(workflows[i].nodes) :
              \E j \in 1..Len(mapping) :
                  mapping[j] = [firework_id |-> k,
                                workflow_id |-> workflows[i].wf_id]

\* the row add_wf has just written for the node k: the newest row of that id
NewestRow(k) == FwRows(k)[Len(FwRows(k))]

\* C6: once an add_wf call has returned, each node of the workflow it stored
\* is stored READY if no link points to it and WAITING otherwise
C6_RootsReadyOthersWaiting ==
    (pc[Owner] = "idle" /\ last[Owner].op = "add_wf" /\ last[Owner].outcome = "ok") =>
        LET w == workflows[Len(workflows)]
        IN  \A k \in Range(w.nodes) :
               NewestRow(k).state =
                   IF Parents(w.links, k) = {} THEN "READY" ELSE "WAITING"

\* get_fw_dict_by_id(fw_id)['state']: the state of the oldest row of that id
StateOf(fw_id) == FwRows(fw_id)[1].state

\* C7: a checkout_fw call without fw_id made while some node is READY returns
\* a node that was READY; afterwards that node is stored RUNNING and one
\* launch id has been taken for its new launch
C7_CheckoutClaimsReadyNode ==
    [][\A t \in Threads :
          (CheckoutFw(t, 0) /\ ReadyRows # {}) =>
              \E i \in ReadyRows :
                  /\ last'[t].outcome = "ok"
                  /\ last'[t].value = fireworks[i].fw_id
                  /\ StateOf(fireworks[i].fw_id)' = "RUNNING"
                  /\ meta'["next_launch_id"] = meta["next_launch_id"] + 1]_vars

\* C8: a checkout_fw call without fw_id made on a reset store in which no
\* node is READY returns (None, None) without raising, takes no launch id
\* and changes no row
C8_NothingReadyReturnsNone ==
    [][\A t \in Threads :
          (CheckoutFw(t, 0) /\ created /\ ReadyRows = {}) =>
              /\ last'[t].outcome = "None"
              /\ UNCHANGED <<meta, fireworks, workflows, mapping>>]_vars

\* C9: checkout_fw with a fw_id claims that node when it is stored READY, and
\* otherwise (another state, or no such node) fails or returns none and
\* leaves the rows and the launch counter as they were
C9_CheckoutByIdOnlyWhenReady ==
    [][\A t \in Threads : \A f \in FwIdArgs \ {0} :
          (CheckoutFw(t, f) /\ DbError(t) = "ok") =>
              IF FwRows(f) # <<>> /\ StateOf(f) = "READY"
              THEN /\ last'[t].outcome = "ok"
                   /\ last'[t].value = f
                   /\ StateOf(f)' = "RUNNING"
              ELSE /\ last'[t].outcome # "ok"
                   /\ UNCHANGED <<meta, fireworks, workflows, mapping>>]_vars

RECURSIVE Ancestors(_, _)
Ancestors(links, k) ==
    Parents(links, k) \cup UNION {Ancestors(links, p) : p \in Parents(links, k)}

\* the states of a workflow's nodes are settled: below a FIZZLED or DEFUSED
\* node every node that has not ended is DEFUSED, and elsewhere a node that
\* has not started is READY iff all its parents are COMPLETED (a root has
\* none) and WAITING otherwise
Settled(w) ==
    \A k \in Range(w.nodes) :
        IF \E a \in Ancestors(w.links, k) : StateOf(a) \in {"FIZZLED", "DEFUSED"}
        THEN StateOf(k) \in Terminal \cup {"DEFUSED"}
        ELSE StateOf(k) \in {"READY", "WAITING"} =>
                (StateOf(k) = "READY" <=>
                    \A p \in Parents(w.links, k) : StateOf(p) = "COMPLETED")

\* the workflows rows that are a chain A -> B -> C whose root is stored READY
LinearRows ==
    {<<i, a, b, c>> \in (1..Len(workflows)) \X FwIdArgs \X FwIdArgs \X FwIdArgs :
        /\ Range(workflows[i].nodes) = {a, b, c}
        /\ workflows[i].links = {<<a, b>>, <<b, c>>}
        /\ Cardinality({a, b, c}) = 3
        /\ StateOf(a) = "READY" /\ StateOf(b) = "WAITING" /\ StateOf(c) = "WAITING"}

\* C10: complete_launch and the refreshes after it leave every workflow
\* settled; on a stored chain A -> B -> C with A the node that ran, ending A
\* COMPLETED leaves B READY and C WAITING, ending it FIZZLED leaves its
\* descendants DEFUSED
C10_CompleteSettlesStates ==
    [][\A t \in Threads : \A st \in Terminal :
          (CompleteLaunch(t, 1, st) /\ DbError(t) = "ok" /\ LinearRows # {}) =>
              /\ last'[t].outcome = "ok"
              /\ \A i \in 1..Len(workflows) : Settled(workflows[i])'
              /\ \E r \in LinearRows :
                    /\ StateOf(r[2])' = st
                    /\ st = "COMPLETED" =>
                          StateOf(r[3])' = "READY" /\ StateOf(r[4])' = "WAITING"
                    /\ st = "FIZZLED" =>
                          StateOf(r[3])' = "DEFUSED" /\ StateOf(r[4])' = "DEFUSED"]_vars

\* a _refresh_wf call of f by t that found the workflow, and so ran
\* Workflow.refresh and _update_wf's writes
Refreshed(t, f) ==
    /\ last[t].op = "_refresh_wf"
    /\ last[t].arg = f
    /\ last[t].outcome \notin {"ProgrammingError", "OperationalError", "TypeError"}

\* the cached states of a workflows row are consistent: below a FIZZLED or
\* DEFUSED node every node has ended or is DEFUSED, and elsewhere a node that
\* has not started is READY iff all its parents are COMPLETED (a root has
\* none) and WAITING otherwise
CacheSettled(w) ==
    \A k \in Range(w.nodes) :
        IF \E a \in Ancestors(w.links, k) : w.fw_states[a] \in {"FIZZLED", "DEFUSED"}
        THEN w.fw_states[k] \in Terminal \cup {"DEFUSED"}
        ELSE w.fw_states[k] \in {"READY", "WAITING"} =>
                (w.fw_states[k] = "READY" <=>
                    \A p \in Parents(w.links, k) : w.fw_states[p] = "COMPLETED")

\* C11: refresh is idempotent at a fixed point: a _refresh_wf call on a node
\* of a workflow whose states are already consistent finds no firework to
\* update and leaves the fireworks, workflows and mapping tables as they were
C11_RefreshIdempotent ==
    [][\A t \in Threads : \A f \in FwIdArgs \ {0} :
          (/\ RefreshWf(t, f)
           /\ DbError(t) = "ok"
           /\ HasWf(f)
           /\ CacheSettled(WfRowOf(f))) =>
              /\ UpdatedIds(WfRowOf(f), f) = {}
              /\ UNCHANGED <<fireworks, workflows, mapping>>]_vars

\* C11 witness: a _refresh_wf call has run on a node of a stored workflow of
\* more than one node whose states are consistent
C11_Witness ==
    /\ Refreshed(Owner, last[Owner].arg)
    /\ HasWf(last[Owner].arg)
    /\ Len(WfRowOf(last[Owner].arg).nodes) > 1
    /\ CacheSettled(WfRowOf(last[Owner].arg))
    /\ fireworks # <<>>

\* the stored workflows in which the two parents p and q share the child c
JoinRows ==
    {<<i, p, q, c>> \in (1..Len(workflows)) \X FwIdArgs \X FwIdArgs \X FwIdArgs :
        /\ Cardinality({p, q, c}) = 3
        /\ Range(workflows[i].nodes) = {p, q, c}
        /\ workflows[i].links = {<<p, c>>, <<q, c>>}
        /\ FwRows(p) # <<>> /\ FwRows(q) # <<>> /\ FwRows(c) # <<>>}

\* C12: two workers each end the launch of one parent of a common child as
\* COMPLETED and then run _refresh_wf on that parent; whichever refresh comes
\* last, once both have run the child is stored READY
C12_JoinChildReady ==
    [][\A t, u \in Threads : \A r \in JoinRows :
          (/\ t # u
           /\ last[t].op = "complete_launch"
           /\ last[u].op = "_refresh_wf" /\ last[u].arg = r[3]
           /\ RefreshWf(t, r[2])) =>
              StateOf(r[4])' = "READY"]_vars

\* C13: a reset that returns leaves the fireworks, workflows and mapping
\* tables empty and the three counters at 1, whatever the store held; the
\* first get_new_fw_id(q) call after it returns 1 and the call after that
\* returns 1 + q (1 and 6 for q = 5)
C13_ResetThenFirstIds ==
    [][\A t \in Threads :
          /\ (Reset(t) /\ ThreadCheck(t)) =>
                /\ fireworks' = <<>> /\ workflows' = <<>> /\ mapping' = <<>>
                /\ \A c \in Counters : meta'[c] = 1
          /\ (AllocUpdate(t) /\ loc[t].op = "next_fw_id") =>
                LET h == HistOf("next_fw_id")
                IN  /\ h = <<>> => last'[t].value = 1
                    /\ Len(h) = 1 => last'[t].value = 1 + h[1].qty]_vars

\* C13 witness: after a reset get_new_fw_id(MaxBlock) has returned 1 and the
\* next call MaxBlock + 1
C13_Witness ==
    /\ Len(hist) = 2
    /\ hist[1] = [counter |-> "next_fw_id", first |-> 1, qty |-> MaxBlock]
    /\ hist[2].first = 1 + MaxBlock
    /\ last[Owner] = Outcome("next_fw_id", MaxBlock, "ok", 1 + MaxBlock)
    /\ meta["next_fw_id"] = 1 + 2 * MaxBlock

\* C14: once the add_wf calls have returned, looking up any node of a stored
\* workflow with get_wf_by_fw_id returns that workflow and no other: the node
\* is in one stored workflow only, the Workflow returned has that workflow's
\* nodes and links, and every member comes from the one fireworks row of its
\* id (so two members of a workflow resolve to the same Workflow)
C14_LookupReturnsOwnWorkflow ==
    (\A t \in Threads : pc[t] = "idle") =>
        \A i \in 1..Len(workflows) : \A n \in Range(workflows[i].nodes) :
            LET g == WfByFwId(n)
            IN  /\ \A j \in 1..Len(workflows) :
                       n \in Range(workflows[j].nodes) => j = i
                /\ g.outcome = "ok"
                /\ g.nodes = workflows[i].nodes
                /\ g.links = workflows[i].links
                /\ \A k \in Range(g.nodes) :
                       Len(FwRows(k)) = 1 /\ g.state[k] = FwRows(k)[1].state

\* C16: get_fw_dict_by_id and get_fw_by_id of an fw_id that has no fireworks
\* row, and get_wf_by_fw_id of an fw_id that has no mapping row, raise: the
\* call does not return a value, and no table or counter changes.  Stated
\* on every step that leaves a lookup as the thread's latest call
C16_AbsentIdRaises ==
    [][\A t \in Threads :
          LET f == last'[t].arg
          IN  /\ (/\ last'[t].op \in {"get_fw_dict_by_id", "get_fw_by_id"}
                  /\ FwRows(f) = <<>>) =>
                    /\ last'[t].outcome \notin {"ok", "pending"}
                    /\ UNCHANGED <<meta, fireworks, workflows, mapping>>
              /\ (last'[t].op = "get_wf_by_fw_id" /\ MappingOf(f) = <<>>) =>
                    /\ last'[t].outcome \notin {"ok", "pending"}
                    /\ UNCHANGED <<meta, fireworks, workflows, mapping>>]_vars

\* C16 witness: on a store that holds fireworks, a lookup of an id that is
\* not among them has raised TypeError
C16_Witness ==
    /\ created
    /\ fireworks # <<>>
    /\ last[Owner].op = "get_fw_dict_by_id"
    /\ FwRows(last[Owner].arg) = <<>>
    /\ last[Owner].outcome = "TypeError"

\* C15: once an add_wf call or a _refresh_wf call has ended, the fw_states
\* entry each workflows row keeps for a member equals the state in every
\* fireworks row of that member (stated where to_dict() always carries the
\* state, so that no row holds NULL)
C15_CacheMatchesRows ==
    (/\ waiting_key
     /\ pc[Owner] = "idle"
     /\ \/ last[Owner].op = "add_wf" /\ last[Owner].outcome = "ok"
        \/ Refreshed(Owner, last[Owner].arg)) =>
        \A i \in 1..Len(workflows) : \A k \in Range(workflows[i].nodes) :
            \A j \in 1..Len(FwRows(k)) :
                FwRows(k)[j].state = workflows[i].fw_states[k]

\* C17: sqlite_to_firework(firework_to_sqlite(fw)) is the dict fw.to_dict()
\* gave, with or without a state key and whatever the rest holds, and
\* sqlite_to_workflow(workflow_to_sqlite(wf)) is the dict wf.to_db_dict() gave
C17_RoundTrip ==
    \A t \in Threads :
        last[t].op \in {"sqlite_to_firework", "sqlite_to_workflow"} =>
            last[t].value = last[t].arg

\* the round trip holds for the firework dicts that have a state key
C17_RoundTripWithState ==
    \A t \in Threads :
        (/\ last[t].op \in {"sqlite_to_firework", "sqlite_to_workflow"}
         /\ last[t].op = "sqlite_to_firework" => HasKey(last[t].arg, "state")) =>
            last[t].value = last[t].arg

\* the ids of the rows a step has appended to the fireworks table
AppendedIds ==
    {fireworks'[i].fw_id : i \in (Len(fireworks') - Len(loc[Owner].wf.ids) + 1)
                                    ..Len(fireworks')}

\* C18: when _upsert_fws returns to add_wf, with reassign_all old_new maps
\* the n old ids one to one and in ascending order onto the block
\* [first, first + n) that its one get_new_fw_id(n) call took from
\* next_fw_id, and the rows written carry the ids of that block; without
\* reassign_all old_new holds the negative ids only, each mapped to an id
\* taken from next_fw_id, and every other firework is written under its own id
C18_UpsertAssignsBlock ==
    [][UpsertWrite(Owner) =>
          LET l == loc[Owner]
              ids == Range(l.wf.ids)
              n == Cardinality(ids)
              old_new == loc'[Owner].old_new
              fw_hist == HistOf("next_fw_id")
          IN  IF l.reassign_all
              THEN /\ fw_hist # <<>>
                   /\ LET block == fw_hist[Len(fw_hist)]
                      IN  /\ block.qty = n
                          /\ meta["next_fw_id"] = block.first + n
                          /\ DOMAIN old_new = ids
                          /\ {old_new[k] : k \in ids} = IdRange(block)
                          /\ \A a, b \in ids : a < b => old_new[a] < old_new[b]
                          /\ AppendedIds = IdRange(block)
              ELSE /\ DOMAIN old_new = {k \in ids : k < 0}
                   /\ \A a, b \in DOMAIN old_new : a # b => old_new[a] # old_new[b]
                   /\ \A k \in DOMAIN old_new :
                          \E i \in 1..Len(fw_hist) :
                              fw_hist[i].first = old_new[k] /\ fw_hist[i].qty = 1
                   /\ AppendedIds = {NewId(old_new, k) : k \in ids}
                   /\ \A k \in ids : k >= 0 => k \in AppendedIds]_vars

\* C18 witness: _upsert_fws has returned from renumbering three fireworks
\* with reassign_all, and the block it took does not start at 1
C18_Witness ==
    /\ pc[Owner] = "alloc_select"
    /\ loc[Owner].op = "add_wf" /\ loc[Owner].cont = "wf_id"
    /\ loc[Owner].reassign_all
    /\ DOMAIN loc[Owner].old_new = {0 - 3, 0 - 2, 0 - 1}
    /\ loc[Owner].old_new[0 - 3] = 2
    /\ loc[Owner].old_new[0 - 1] = 4

\* C19: a checkout_fw call without fw_id made while some node is READY
\* records its claim in the row of the node it selected: one of the rows that
\* were READY is not READY afterwards, so the next such call does not select
\* the same node again, and no other row changes
C19_ClaimPersistedOnNode ==
    [][\A t \in Threads :
          (CheckoutFw(t, 0) /\ DbError(t) = "ok" /\ ReadyRows # {}) =>
              /\ Len(fireworks') = Len(fireworks)
              /\ \E i \in ReadyRows :
                    /\ fireworks'[i].state # "READY"
                    /\ fireworks'[i].fw_id = fireworks[i].fw_id
                    /\ \A j \in 1..Len(fireworks) :
                          j # i => fireworks'[j] = fireworks[j]]_vars

\* C20: a _refresh_wf(fw_id) call that finds its workflow rewrites the
\* workflows row whose wf_id the mapping table gives for fw_id, so that it
\* holds the states the refresh came to; every other workflows row and the
\* mapping table stay as they were
C20_RefreshRewritesOwnRow ==
    [][\A t \in Threads : \A f \in FwIdArgs \ {0} :
          (RefreshWf(t, f) /\ DbError(t) = "ok" /\ HasWf(f)) =>
              LET wf_id == MappingOf(f)[1].workflow_id
              IN  /\ mapping' = mapping
                  /\ Len(workflows') = Len(workflows)
                  /\ \A i \in 1..Len(workflows) :
                        IF workflows[i].wf_id # wf_id
                        THEN workflows'[i] = workflows[i]
                        ELSE /\ workflows'[i].wf_id = wf_id
                             /\ workflows'[i].nodes = workflows[i].nodes
                             /\ workflows'[i].links = workflows[i].links
                             /\ workflows'[i].fw_states =
                                   Refresh(workflows[i].links,
                                           workflows[i].fw_states, f)]_vars

\* C21: add_wf takes one id from next_workflow_id per call: once the calls
\* have returned, the workflows stored since the reset carry the ids 1, 2,
\* 3, ... in the order they were stored, and next_workflow_id stands at 1
\* plus their number
C21_WorkflowIdsDense ==
    (created /\ \A t \in Threads : pc[t] = "idle") =>
        /\ \A i \in 1..Len(workflows) : workflows[i].wf_id = i
        /\ meta["next_workflow_id"] = 1 + Len(workflows)

====
